---- MODULE Spec2Model ----
(***************************************************************************)
(* The administrative-division resolver of flomo-mcp (src/src/gaode.ts)    *)
(* and the two resource handlers built on it (src/src/httpclient.ts).      *)
(*                                                                         *)
(* A string is a sequence of one-character strings.  TLC reads ASCII only, *)
(* so a Chinese glyph of the data is written as one ASCII letter; the only *)
(* glyph the code itself names is the suffix of isCountyLevelCity, SHI.    *)
(***************************************************************************)
EXTENDS Integers, Sequences, FiniteSets, TLC

VARIABLES
    content,          \* the text of adcode_citycode.csv
    pc,               \* "idle", or the position of the listCity call under way
    handler,          \* the request handler that made the call under way
    city,             \* listCity's argument
    allCities,        \* listCity's local: the loaded table
    matches,          \* listCity's local: the records whose name holds the query
    idx,              \* how many of matches the for loop has processed
    expandedMatches,  \* listCity's local: the accumulated expansion
    contributed,      \* what each processed match pushed, in processing order
    ret,              \* the call that completed last, and how it ended
    kept              \* a completed call kept to compare later calls with,
                      \* and how many calls have completed since

vars == <<content, pc, handler, city, allCities, matches, idx, expandedMatches,
          contributed, ret, kept>>

(***************************************************************************)
(* JavaScript string and array primitives the code uses.                   *)
(***************************************************************************)
Min(S) == CHOOSE x \in S : \A y \in S : x <= y

\* Whitespace String.prototype.trim strips (the characters the data can hold).
WhiteSpace == {" ", "\t", "\r", "\n"}

\* s.endsWith(suffix)
EndsWith(s, suffix) ==
    /\ Len(suffix) <= Len(s)
    /\ SubSeq(s, Len(s) - Len(suffix) + 1, Len(s)) = suffix

\* s.startsWith(prefix)
StartsWith(s, prefix) ==
    /\ Len(prefix) <= Len(s)
    /\ SubSeq(s, 1, Len(prefix)) = prefix

\* s.includes(sub)
Includes(s, sub) ==
    \E i \in 0..(Len(s) - Len(sub)) : SubSeq(s, i + 1, i + Len(sub)) = sub

\* s.substring(0, n): the first n characters, or all of s when it is shorter.
Substring0(s, n) == SubSeq(s, 1, IF n < Len(s) THEN n ELSE Len(s))

\* s.trim()
Trim(s) ==
    LET keep == {i \in 1..Len(s) : s[i] \notin WhiteSpace}
    IN  IF keep = {} THEN <<>>
        ELSE SubSeq(s, Min(keep), CHOOSE x \in keep : \A y \in keep : y <= x)

\* Whether sep occurs in s at position j.
SepAt(s, sep, j) ==
    /\ j + Len(sep) - 1 <= Len(s)
    /\ SubSeq(s, j, j + Len(sep) - 1) = sep

\* Where sep occurs in s.  The separators the code splits on ("\n", ",",
\* "://") cannot overlap themselves, so each occurrence separates.
SepPositions(s, sep) == {j \in 1..Len(s) : SepAt(s, sep, j)}

\* s.split(sep) for a non-empty separator; "".split(sep) is [""].  The string
\* is cut at the occurrence nearest its middle and the halves are split.
RECURSIVE Split(_, _)
Split(s, sep) ==
    LET P == SepPositions(s, sep)
        mid == (Len(s) + 1) \div 2
        Dist(p) == IF p < mid THEN mid - p ELSE p - mid
    IN  IF P = {} THEN << s >>
        ELSE LET cut == CHOOSE p \in P : \A q \in P : Dist(p) <= Dist(q)
             IN  Split(SubSeq(s, 1, cut - 1), sep)
                 \o Split(SubSeq(s, cut + Len(sep), Len(s)), sep)

\* array.slice(0, n)
Slice0(a, n) == SubSeq(a, 1, IF n < Len(a) THEN n ELSE Len(a))

\* The value undefined, where a CityInfo may stand.
Undefined == [undefined |-> TRUE]

\* array.find(c => c.adcode === code)
FindByAdcode(a, code) ==
    LET hits == {i \in 1..Len(a) : a[i].adcode = code}
    IN  IF hits = {} THEN Undefined ELSE a[Min(hits)]

(***************************************************************************)
(* loadCityData                                                            *)
(***************************************************************************)
\* const [name, adcode, citycode] = line.split(","): a field the line does not
\* have is undefined, and undefined.trim() throws a TypeError.
RowThrows(line) == Len(Split(line, <<",">>)) < 3

ParseRow(line) ==
    LET f == Split(line, <<",">>)
    IN  [name |-> Trim(f[1]), adcode |-> Trim(f[2]), citycode |-> Trim(f[3])]

\* lines.slice(1).filter(line => line.trim())
DataLines(text) ==
    SelectSeq(Tail(Split(text, <<"\n">>)), LAMBDA line : Trim(line) # <<>>)

\* The outcome of loadCityData on a readable file: the array it returns, or the
\* TypeError its map callback throws on the first line with a missing field.
loadCityData(text) ==
    LET dataLines == DataLines(text)
    IN  IF \E i \in 1..Len(dataLines) : RowThrows(dataLines[i])
        THEN [threw |-> TRUE, error |-> "TypeError", value |-> <<>>]
        ELSE [threw |-> FALSE, error |-> "", value |-> [i \in 1..Len(dataLines) |-> ParseRow(dataLines[i])]]

(***************************************************************************)
(* The file format loadCityData reads, written out.                        *)
(***************************************************************************)
DigitChar == <<"0", "1", "2", "3", "4", "5", "6", "7", "8", "9">>

\* The decimal digits of n, w wide.
Digits(n, w) == [i \in 1..w |-> DigitChar[((n \div (10 ^ (w - i))) % 10) + 1]]

Adcode(n) == Digits(n, 6)

\* One line of the file: name,adcode,citycode
Line(name, adcode, citycode) == name \o <<",">> \o adcode \o <<",">> \o citycode

\* Every line followed by a newline.
RECURSIVE Unlines(_)
Unlines(ls) ==
    IF Len(ls) = 0 THEN <<>>
    ELSE IF Len(ls) = 1 THEN ls[1] \o <<"\n">>
    ELSE Unlines(SubSeq(ls, 1, Len(ls) \div 2))
         \o Unlines(SubSeq(ls, (Len(ls) \div 2) + 1, Len(ls)))

Header == <<"n", ",", "a", ",", "c">>

Csv(ls) == Unlines(<<Header>> \o ls)

(***************************************************************************)
(* Hierarchy classifier and resolver                                       *)
(***************************************************************************)
getAdminLevel(adcode) ==
    IF EndsWith(adcode, <<"0", "0", "0", "0">>) THEN "province"
    ELSE IF EndsWith(adcode, <<"0", "0">>) THEN "city"
    ELSE "district"

findProvince(adcode, cities) ==
    FindByAdcode(cities, Substring0(adcode, 2) \o <<"0", "0", "0", "0">>)

findCity(adcode, cities) ==
    FindByAdcode(cities, Substring0(adcode, 4) \o <<"0", "0">>)

\* Beijing, Tianjin, Shanghai, Chongqing.
municipalities ==
    { <<"1", "1", "0", "0", "0", "0">>, <<"1", "2", "0", "0", "0", "0">>,
      <<"3", "1", "0", "0", "0", "0">>, <<"5", "0", "0", "0", "0", "0">> }

isMunicipality(cityInfo) == cityInfo.adcode \in municipalities

\* The glyph "shi" (city), the suffix of a county-level city's name.
SHI == "S"

isCountyLevelCity(cityInfo) ==
    /\ getAdminLevel(cityInfo.adcode) = "district"
    /\ EndsWith(cityInfo.name, <<SHI>>)

(***************************************************************************)
(* Name composer                                                           *)
(***************************************************************************)
\* buildFullName with the parent city tested before the municipality.
buildFullNameCityFirst(cityInfo, cities) ==
    LET level    == getAdminLevel(cityInfo.adcode)
        province == findProvince(cityInfo.adcode, cities)
        cityRec  == findCity(cityInfo.adcode, cities)
    IN  IF level = "province" THEN cityInfo.name
        ELSE IF level = "city" THEN
            IF province # Undefined /\ ~isMunicipality(province)
            THEN province.name \o cityInfo.name
            ELSE cityInfo.name
        ELSE IF isCountyLevelCity(cityInfo) THEN
            IF province # Undefined THEN province.name \o cityInfo.name
            ELSE cityInfo.name
        ELSE IF province # Undefined /\ cityRec # Undefined
            THEN province.name \o cityRec.name \o cityInfo.name
        ELSE IF province # Undefined THEN province.name \o cityInfo.name
        ELSE cityInfo.name

\* buildFullName without the county-level-city branch.
buildFullNameNoCounty(cityInfo, cities) ==
    LET level    == getAdminLevel(cityInfo.adcode)
        province == findProvince(cityInfo.adcode, cities)
        cityRec  == findCity(cityInfo.adcode, cities)
    IN  IF level = "province" THEN cityInfo.name
        ELSE IF level = "city" THEN
            IF province # Undefined /\ ~isMunicipality(province)
            THEN province.name \o cityInfo.name
            ELSE cityInfo.name
        ELSE IF province # Undefined /\ isMunicipality(province)
            THEN province.name \o cityInfo.name
        ELSE IF province # Undefined /\ cityRec # Undefined
            THEN province.name \o cityRec.name \o cityInfo.name
        ELSE IF province # Undefined THEN province.name \o cityInfo.name
        ELSE cityInfo.name

\* buildFullName with a city named after its province even in a municipality.
buildFullNameCityAlways(cityInfo, cities) ==
    LET level    == getAdminLevel(cityInfo.adcode)
        province == findProvince(cityInfo.adcode, cities)
        cityRec  == findCity(cityInfo.adcode, cities)
    IN  IF level = "province" THEN cityInfo.name
        ELSE IF level = "city" THEN
            IF province # Undefined
            THEN province.name \o cityInfo.name
            ELSE cityInfo.name
        ELSE IF isCountyLevelCity(cityInfo) THEN
            IF province # Undefined THEN province.name \o cityInfo.name
            ELSE cityInfo.name
        ELSE IF province # Undefined /\ isMunicipality(province)
            THEN province.name \o cityInfo.name
        ELSE IF province # Undefined /\ cityRec # Undefined
            THEN province.name \o cityRec.name \o cityInfo.name
        ELSE IF province # Undefined THEN province.name \o cityInfo.name
        ELSE cityInfo.name

buildFullName(cityInfo, cities) ==
    LET level    == getAdminLevel(cityInfo.adcode)
        province == findProvince(cityInfo.adcode, cities)
        cityRec  == findCity(cityInfo.adcode, cities)
    IN  IF level = "province" THEN cityInfo.name
        ELSE IF level = "city" THEN
            IF province # Undefined /\ ~isMunicipality(province)
            THEN province.name \o cityInfo.name
            ELSE cityInfo.name
        ELSE IF isCountyLevelCity(cityInfo) THEN
            IF province # Undefined THEN province.name \o cityInfo.name
            ELSE cityInfo.name
        ELSE IF province # Undefined /\ isMunicipality(province)
            THEN province.name \o cityInfo.name
        ELSE IF province # Undefined /\ cityRec # Undefined
            THEN province.name \o cityRec.name \o cityInfo.name
        ELSE IF province # Undefined THEN province.name \o cityInfo.name
        ELSE cityInfo.name

(***************************************************************************)
(* Query engine                                                            *)
(***************************************************************************)
findDistrictsInProvince(provinceCode, cities) ==
    SelectSeq(cities, LAMBDA c :
        getAdminLevel(c.adcode) = "district" /\ StartsWith(c.adcode, provinceCode))

findDistrictsInCity(cityCode, cities) ==
    SelectSeq(cities, LAMBDA c :
        getAdminLevel(c.adcode) = "district" /\ StartsWith(c.adcode, cityCode))

\* if (expandedMatches.length >= 10) break
ExpandLimit == 10

\* expandedMatches.slice(0, 100)
SliceLimit == 100

\* A JavaScript value passed as an argument.
Str(s) == [type |-> "string", value |-> s]
UndefinedArg == [type |-> "undefined", value |-> <<>>]
NullArg == [type |-> "null", value |-> <<>>]
Obj(o) == [type |-> "object", value |-> o]

\* city || ""
OrEmpty(q) == IF q.type = "string" THEN q.value ELSE <<>>

\* The filter without || "": includes(undefined) looks for "undefined".
FilterMatchesNoDefault(cities, q) ==
    SelectSeq(cities, LAMBDA c :
        Includes(c.name, IF q.type = "string" THEN q.value
                         ELSE IF q.type = "null" THEN <<"n", "u", "l", "l">>
                         ELSE <<"u", "n", "d", "e", "f", "i", "n", "e", "d">>))

\* allCities.filter(c => c.name.includes(city || ""))
FilterMatches(cities, q) ==
    SelectSeq(cities, LAMBDA c : Includes(c.name, OrEmpty(q)))

\* The expansion with a province of no districts falling back to itself.
ExpandProvinceFallback(match, cities) ==
    LET level == getAdminLevel(match.adcode)
    IN  IF level = "province"
        THEN LET districts == findDistrictsInProvince(Substring0(match.adcode, 2), cities)
             IN  IF Len(districts) > 0 THEN districts ELSE << match >>
        ELSE IF level = "city"
        THEN LET districts == findDistrictsInCity(Substring0(match.adcode, 4), cities)
             IN  IF Len(districts) > 0 THEN districts ELSE << match >>
        ELSE << match >>

\* The expansion with a city pushed ahead of its districts.
ExpandCityAndDistricts(match, cities) ==
    LET level == getAdminLevel(match.adcode)
    IN  IF level = "province"
        THEN findDistrictsInProvince(Substring0(match.adcode, 2), cities)
        ELSE IF level = "city"
        THEN << match >> \o findDistrictsInCity(Substring0(match.adcode, 4), cities)
        ELSE << match >>

\* What one iteration of the for loop pushes onto expandedMatches.
Expand(match, cities) ==
    LET level == getAdminLevel(match.adcode)
    IN  IF level = "province"
        THEN findDistrictsInProvince(Substring0(match.adcode, 2), cities)
        ELSE IF level = "city"
        THEN LET districts == findDistrictsInCity(Substring0(match.adcode, 4), cities)
             IN  IF Len(districts) > 0 THEN districts ELSE << match >>
        ELSE << match >>

\* The break taken only past the limit.
LoopEndsPastLimit(expanded, processed, all) ==
    Len(expanded) > ExpandLimit \/ processed >= Len(all)

\* The loop is left by its break, or because matches is exhausted.
LoopEnds(expanded, processed, all) ==
    Len(expanded) >= ExpandLimit \/ processed >= Len(all)

\* limitedMatches.map(match => ({name: buildFullName(...), adcode, citycode}))
Compose(match, cities) ==
    [name |-> buildFullName(match, cities), adcode |-> match.adcode,
     citycode |-> match.citycode]

\* listCity's last step without the slice.
ListCityResultUnsliced(expanded, cities) ==
    [i \in 1..Len(expanded) |-> Compose(expanded[i], cities)]

ListCityResult(expanded, cities) ==
    LET limitedMatches == Slice0(expanded, SliceLimit)
    IN  [i \in 1..Len(limitedMatches) |-> Compose(limitedMatches[i], cities)]

\* getCity matching a code by its prefix.
getCityByPrefix(adcode, cities) ==
    LET hits == {i \in 1..Len(cities) : StartsWith(cities[i].adcode, adcode.value)}
    IN  IF adcode.type = "string" /\ hits # {} THEN cities[Min(hits)] ELSE Undefined

\* getCity; its argument is undefined when the handler found no adcode.
getCity(adcode, cities) ==
    IF adcode.type = "string" THEN FindByAdcode(cities, adcode.value) ELSE Undefined

(***************************************************************************)
(* Calls and their outcomes                                                *)
(***************************************************************************)
NoCall == [op |-> "none", arg |-> UndefinedArg, threw |-> FALSE, error |-> "",
           value |-> <<>>]

Returned(op, arg, value) ==
    [op |-> op, arg |-> arg, threw |-> FALSE, error |-> "", value |-> value]

Threw(op, arg, error) ==
    [op |-> op, arg |-> arg, threw |-> TRUE, error |-> error, value |-> <<>>]

\* Stands in kept while the next call to complete is the one to keep.
KeepNext == [op |-> "keep", arg |-> UndefinedArg, threw |-> FALSE, error |-> "",
             value |-> <<>>]

\* The count of later calls stops here.
MaxSince == 2

Complete(r) ==
    /\ ret' = r
    /\ kept' = IF kept.call = KeepNext THEN [call |-> r, since |-> 0]
               ELSE IF kept.call = NoCall THEN kept
               ELSE [kept EXCEPT !.since = IF @ < MaxSince THEN @ + 1 ELSE @]

\* listCity's locals, which do not outlive the call.
NoLocals ==
    /\ city = UndefinedArg
    /\ allCities = <<>>
    /\ matches = <<>>
    /\ idx = 0
    /\ expandedMatches = <<>>
    /\ contributed = <<>>

DropLocals ==
    /\ city' = UndefinedArg
    /\ allCities' = <<>>
    /\ matches' = <<>>
    /\ idx' = 0
    /\ expandedMatches' = <<>>
    /\ contributed' = <<>>

\* listCity up to its for loop: load (which may throw) and filter.
EnterListCity(who, q) ==
    LET loaded == loadCityData(content)
        found  == FilterMatches(loaded.value, q)
    IN  /\ pc = "idle"
        /\ content' = content
        /\ IF loaded.threw
           THEN /\ Complete(Threw(who, q, loaded.error))
                /\ pc' = "idle"
                /\ handler' = "none"
                /\ DropLocals
           ELSE /\ pc' = IF LoopEnds(<<>>, 0, found) THEN "return" ELSE "loop"
                /\ handler' = who
                /\ city' = q
                /\ allCities' = loaded.value
                /\ matches' = found
                /\ idx' = 0
                /\ expandedMatches' = <<>>
                /\ contributed' = <<>>
                /\ UNCHANGED <<ret, kept>>

\* A direct call of the exported listCity.
ListCityCall(q) == EnterListCity("listCity", q)

\* One iteration of the for loop, its break test included.
ListCityLoop ==
    /\ pc = "loop"
    /\ LET pushed == Expand(matches[idx + 1], allCities)
       IN  /\ expandedMatches' = expandedMatches \o pushed
           /\ contributed' = Append(contributed, pushed)
           /\ idx' = idx + 1
           /\ pc' = IF LoopEnds(expandedMatches \o pushed, idx + 1, matches)
                    THEN "return" ELSE "loop"
    /\ UNCHANGED <<content, handler, city, allCities, matches, ret, kept>>

CityScheme == <<"c", "i", "t", "y", ":", "/", "/">>
TextPlain == <<"t", "e", "x", "t", "/", "p", "l", "a", "i", "n">>

\* One entry of the ListResources handler's map over what listCity returned.
Resource(c) ==
    [name |-> c.name, description |-> c.name, uri |-> CityScheme \o c.adcode,
     mimeType |-> TextPlain]

\* cities.map(city => ({...}))
Resources(cities) == [i \in 1..Len(cities) |-> Resource(cities[i])]

\* listCity's return, with the composed records written back to the file.
ListCityReturnSaving ==
    /\ pc = "return"
    /\ LET cities == ListCityResult(expandedMatches, allCities)
       IN  /\ IF handler = "ListResources"
              THEN Complete(Returned(handler, city, [resources |-> Resources(cities)]))
              ELSE Complete(Returned(handler, city, cities))
           /\ content' = Csv([i \in 1..Len(cities) |->
                   Line(cities[i].name, cities[i].adcode, cities[i].citycode)])
    /\ pc' = "idle"
    /\ handler' = "none"
    /\ DropLocals

\* slice, map and return; the ListResources handler then builds its response.
ListCityReturn ==
    /\ pc = "return"
    /\ LET cities == ListCityResult(expandedMatches, allCities)
       IN  IF handler = "ListResources"
           THEN Complete(Returned(handler, city, [resources |-> Resources(cities)]))
           ELSE Complete(Returned(handler, city, cities))
    /\ pc' = "idle"
    /\ handler' = "none"
    /\ DropLocals
    /\ content' = content

\* server.setRequestHandler(ListResourcesRequestSchema, ...): listCity().
ListResourcesRequest == EnterListCity("ListResources", UndefinedArg)

\* A direct call of the exported getCity.
GetCityCall(adcode) ==
    LET loaded == loadCityData(content)
    IN  /\ pc = "idle"
        /\ IF loaded.threw
           THEN Complete(Threw("getCity", Str(adcode), loaded.error))
           ELSE Complete(Returned("getCity", Str(adcode),
                                  getCity(Str(adcode), loaded.value)))
        /\ UNCHANGED <<content, pc, handler, city, allCities, matches, idx,
                       expandedMatches, contributed>>

\* request.params.uri.split("://")[1]
UriAdcode(uri) ==
    LET parts == Split(uri, <<":", "/", "/">>)
    IN  IF Len(parts) >= 2 THEN Str(parts[2]) ELSE UndefinedArg

CityLabel == <<"c", "i", "t", "y", ":", " ">>
AdcodeLabel == <<" ", "a", "d", "c", "o", "d", "e", ":", " ">>

\* server.setRequestHandler(ReadResourceRequestSchema, ...)
ReadResourceRequest(uri) ==
    LET loaded == loadCityData(content)
        found  == getCity(UriAdcode(uri), loaded.value)
    IN  /\ pc = "idle"
        /\ IF loaded.threw
           THEN Complete(Threw("ReadResource", Str(uri), loaded.error))
           ELSE IF found = Undefined
           THEN Complete(Threw("ReadResource", Str(uri), "City not found"))
           ELSE Complete(Returned("ReadResource", Str(uri),
                    [contents |-> << [uri |-> CityScheme \o found.adcode,
                                      mimeType |-> TextPlain,
                                      text |-> CityLabel \o found.name
                                               \o AdcodeLabel \o found.adcode] >>]))
        /\ UNCHANGED <<content, pc, handler, city, allCities, matches, idx,
                       expandedMatches, contributed>>

\* buildFullName applied to the i-th record of the loaded table.
BuildFullNameCall(i) ==
    LET loaded == loadCityData(content)
    IN  /\ pc = "idle"
        /\ ~loaded.threw
        /\ i \in 1..Len(loaded.value)
        /\ Complete(Returned("buildFullName", Obj(loaded.value[i]),
                             buildFullName(loaded.value[i], loaded.value)))
        /\ UNCHANGED <<content, pc, handler, city, allCities, matches, idx,
                       expandedMatches, contributed>>

(***************************************************************************)
(* The data files and the arguments the calls are made with.               *)
(***************************************************************************)
\* Districts per city in the generated tables.
NumDistricts == 6

\* Districts of the one province of the large table.
NumBig == 101

\* n district lines with adcodes from base + 1 on, the codes that end in 00
\* left out.
DistrictLines(base, n) ==
    [k \in 1..n |-> Line(<<"q", DigitChar[(k % 10) + 1], "Q">>,
                         Adcode(base + k + ((k - 1) \div 99)), <<>>)]

\* A municipality, a province with two cities, a county-level city.
Regions ==
    Csv(<< Line(<<"z", "g">>, Adcode(100000), <<>>),
           Line(<<"b", "j", "S">>, Adcode(110000), <<"0", "1", "0">>),
           Line(<<"d", "c", "Q">>, Adcode(110101), <<"0", "1", "0">>),
           Line(<<"x", "c", "Q">>, Adcode(110102), <<"0", "1", "0">>),
           Line(<<"z", "j", "P">>, Adcode(330000), <<>>),
           Line(<<"h", "z", "S">>, Adcode(330100), <<"0", "5", "7", "1">>),
           Line(<<"x", "h", "Q">>, Adcode(330106), <<"0", "5", "7", "1">>),
           Line(<<"j", "d", "S">>, Adcode(330182), <<"0", "5", "7", "1">>),
           Line(<<"z", "s", "S">>, Adcode(330900), <<"0", "5", "8", "0">>) >>)

\* Records with absent parents, a duplicated code, padded fields, a blank
\* line, a fourth field, a short code and a code that is no number.
Irregular ==
    Csv(<< Line(<<"b", "j", "S">>, Adcode(110000), <<"0", "1", "0">>),
           Line(<<" ", "b", "c", "S", " ">>, <<" ">> \o Adcode(110100) \o <<"\t">>,
                <<"0", "1", "0", " ", "\r">>),
           Line(<<"d", "c", "Q">>, Adcode(110101), <<"0", "1", "0">>),
           Line(<<"m", "m", "S">>, Adcode(110181), <<"0", "1", "0">>),
           <<" ", "\t", "\r">>,
           Line(<<"z", "j", "P">>, Adcode(330000), <<>>),
           Line(<<"z", "j", "X">>, Adcode(330000), <<>>),
           Line(<<"n", "b", "Q">>, Adcode(330201), <<>>),
           Line(<<"h", "z", "S">>, Adcode(330100), <<>>),
           Line(<<"x", "h", "Q">>, Adcode(330106), <<>>),
           Line(<<"n", "c", "S">>, Adcode(990100), <<>>),
           Line(<<"o", "p", "Q">>, Adcode(990101), <<>>),
           Line(<<"o", "c", "S">>, Adcode(990181), <<>>),
           Line(<<"l", "o", "Q">>, Adcode(880101), <<>>),
           Line(<<"s", "h", "Q">>, <<"1", "1">>, <<"x">>) \o <<",", "e">>,
           Line(<<"n", "n", "Q">>, <<"a", "b">>, <<>>) >>)

\* One province, two cities of n districts each and a city of none.
Dense(n) ==
    Csv(<< Line(<<"g", "d", "P">>, Adcode(440000), <<>>),
           Line(<<"g", "z", "S">>, Adcode(440100), <<"0", "2", "0">>) >>
        \o DistrictLines(440100, n)
        \o << Line(<<"s", "z", "S">>, Adcode(440300), <<"0", "7", "5", "5">>) >>
        \o DistrictLines(440300, n)
        \o << Line(<<"d", "g", "S">>, Adcode(441900), <<"0", "7", "6", "9">>) >>)

\* Province-tier records only.
ProvincesOnly ==
    Csv(<< Line(<<"z", "g">>, Adcode(100000), <<>>),
           Line(<<"b", "j", "S">>, Adcode(110000), <<"0", "1", "0">>) >>)

\* A file of no characters.
EmptyFile == <<>>

\* A line of two fields, and a line of one.
TwoFields ==
    Csv(<< Line(<<"b", "j", "S">>, Adcode(110000), <<"0", "1", "0">>),
           <<"d", "c", "Q", ",">> \o Adcode(110101) >>)

OneField ==
    Csv(<< <<"d", "c", "Q">>,
           Line(<<"b", "j", "S">>, Adcode(110000), <<"0", "1", "0">>) >>)

\* One province of n districts, then a city of none.
Big(n) ==
    Csv(<< Line(<<"g", "d", "P">>, Adcode(440000), <<>>) >>
        \o DistrictLines(440100, n)
        \o << Line(<<"d", "g", "S">>, Adcode(441900), <<>>) >>)

Files == {Regions, Irregular, Dense(NumDistricts), ProvincesOnly, EmptyFile,
          TwoFields, OneField}

BigFiles == {Big(NumBig - 2), Big(NumBig - 1), Big(NumBig)}

Queries ==
    {Str(<<>>), UndefinedArg, NullArg, Str(<<"b", "j">>), Str(<<"h", "z">>),
     Str(<<"z">>), Str(<<"S">>), Str(<<"Q">>), Str(<<"z", "z">>)}

Adcodes == {Adcode(110000), Adcode(330000), Adcode(330106), Adcode(999999), <<"1", "1">>}

Uris ==
    {CityScheme \o Adcode(110101), CityScheme \o Adcode(999999),
     <<"c", "i", "t", "y">>}

CapQueries == {Str(<<>>), Str(<<"Q">>), Str(<<"d", "g">>), Str(<<"P">>)}

RepeatFiles == {Regions, Irregular, TwoFields}

RepeatQueries == {Str(<<>>), NullArg, Str(<<"S">>)}

RepeatAdcodes == {Adcode(110000), Adcode(999999)}

RepeatUris == {CityScheme \o Adcode(110101)}

(***************************************************************************)
(* Specifications                                                          *)
(***************************************************************************)
Idle ==
    /\ pc = "idle"
    /\ handler = "none"
    /\ NoLocals
    /\ ret = NoCall

Init == content \in Files /\ Idle /\ kept = [call |-> NoCall, since |-> 0]

Next ==
    \/ \E q \in Queries : ListCityCall(q)
    \/ ListCityLoop
    \/ ListCityReturn
    \/ ListResourcesRequest
    \/ \E a \in Adcodes : GetCityCall(a)
    \/ \E u \in Uris : ReadResourceRequest(u)
    \/ \E i \in 1..(2 * NumDistricts + 4) : BuildFullNameCall(i)

Spec == Init /\ [][Next]_vars

\* The large tables, where one match expands past the slice.
InitCap == content \in BigFiles /\ Idle /\ kept = [call |-> NoCall, since |-> 0]

NextCap ==
    \/ \E q \in CapQueries : ListCityCall(q)
    \/ ListCityLoop
    \/ ListCityReturn
    \/ ListResourcesRequest

SpecCap == InitCap /\ [][NextCap]_vars

\* Calls repeated: the first call to complete is kept.
InitRepeat == content \in RepeatFiles /\ Idle /\ kept = [call |-> KeepNext, since |-> 0]

NextRepeat ==
    \/ \E q \in RepeatQueries : ListCityCall(q)
    \/ ListCityLoop
    \/ ListCityReturn
    \/ ListResourcesRequest
    \/ \E a \in RepeatAdcodes : GetCityCall(a)
    \/ \E u \in RepeatUris : ReadResourceRequest(u)
    \/ \E i \in 1..2 : BuildFullNameCall(i)

SpecRepeat == InitRepeat /\ [][NextRepeat]_vars

(***************************************************************************)
(* The vocabulary of the properties                                        *)
(***************************************************************************)
\* The table the file holds.
Table == loadCityData(content).value

FourZeros == <<"0", "0", "0", "0">>
TwoZeros == <<"0", "0">>

ProvinceTier(r) == EndsWith(r.adcode, FourZeros)
CityTier(r) == EndsWith(r.adcode, TwoZeros) /\ ~EndsWith(r.adcode, FourZeros)
DistrictTier(r) == ~EndsWith(r.adcode, TwoZeros)

\* The first table record with the given code, which may be absent.
Has(code) == LET t == Table IN \E i \in 1..Len(t) : t[i].adcode = code
Rec(code) == LET t == Table IN t[Min({i \in 1..Len(t) : t[i].adcode = code})]

\* Parent province: first 2 digits + "0000"; parent city: first 4 digits + "00".
ProvinceCode(r) == Substring0(r.adcode, 2) \o FourZeros
CityCode(r) == Substring0(r.adcode, 4) \o TwoZeros

MunicipalityCodes == {Adcode(110000), Adcode(120000), Adcode(310000), Adcode(500000)}

UnderMunicipality(r) == Has(ProvinceCode(r)) /\ ProvinceCode(r) \in MunicipalityCodes

\* Name ends with the county-level-city suffix.
CountySuffix(r) == Len(r.name) > 0 /\ r.name[Len(r.name)] = "S"

\* buildFullName has just returned the name of the record Named.
NameBuilt == ret.op = "buildFullName"
Named == ret.arg.value

(***************************************************************************)
(* C1: the list listCity returns has at most 100 entries, whatever the     *)
(* table and the query.                                                    *)
(***************************************************************************)
C1_AtMost100 ==
    /\ (ret.op = "listCity" /\ ~ret.threw) => Len(ret.value) <= 100
    /\ (ret.op = "ListResources" /\ ~ret.threw) => Len(ret.value.resources) <= 100

\* listCity returned 100 entries from a table where one province holds more.
C1_Witness ==
    /\ ret.op = "listCity"
    /\ Len(ret.value) = 100
    /\ LET t == Table
       IN  Cardinality({i \in 1..Len(t) :
               DistrictTier(t[i]) /\ StartsWith(t[i].adcode, <<"4", "4">>)}) > 100

(***************************************************************************)
(* C2 as stated: every record whose parent province is a municipality is   *)
(* named province.name + record.name.  The municipality's own record and a *)
(* city-tier record under it are named by their own name alone.            *)
(***************************************************************************)
C2_EveryRecord ==
    (NameBuilt /\ UnderMunicipality(Named))
        => ret.value = Rec(ProvinceCode(Named)).name \o Named.name

(***************************************************************************)
(* C2: every district-tier record whose parent province is a municipality  *)
(* is named province.name + record.name, with no city name in between.     *)
(***************************************************************************)
C2_MunicipalityDistrict ==
    (NameBuilt /\ DistrictTier(Named) /\ UnderMunicipality(Named))
        => ret.value = Rec(ProvinceCode(Named)).name \o Named.name

\* An ordinary district of a municipality whose parent city record exists.
C2_Witness ==
    /\ NameBuilt
    /\ DistrictTier(Named)
    /\ ~CountySuffix(Named)
    /\ UnderMunicipality(Named)
    /\ Has(CityCode(Named))
    /\ ret.value = Rec(ProvinceCode(Named)).name \o Named.name

(***************************************************************************)
(* C3: a district-tier record whose name ends with the county-level-city   *)
(* suffix is named province.name + record.name when its parent province    *)
(* resolves and record.name otherwise; the parent city's name is not used. *)
(***************************************************************************)
C3_CountyLevelCity ==
    (NameBuilt /\ DistrictTier(Named) /\ CountySuffix(Named))
        => ret.value = IF Has(ProvinceCode(Named))
                       THEN Rec(ProvinceCode(Named)).name \o Named.name
                       ELSE Named.name

\* A county-level city under an ordinary province whose parent city exists.
C3_Witness ==
    /\ NameBuilt
    /\ DistrictTier(Named)
    /\ CountySuffix(Named)
    /\ Has(ProvinceCode(Named))
    /\ ~UnderMunicipality(Named)
    /\ Has(CityCode(Named))
    /\ ret.value = Rec(ProvinceCode(Named)).name \o Named.name

(***************************************************************************)
(* C7: outside the municipality-district and county-level-city cases, a    *)
(* province-tier record is named by its name; a city-tier record by        *)
(* province.name + name when its province exists and is no municipality,   *)
(* by its name otherwise; an ordinary district by province.name +          *)
(* city.name + name when both parents resolve, province.name + name when   *)
(* only the province does, and its name when neither does.                 *)
(***************************************************************************)
C7_RuleTable ==
    NameBuilt =>
        /\ ProvinceTier(Named) => ret.value = Named.name
        /\ CityTier(Named) =>
             ret.value = IF Has(ProvinceCode(Named)) /\ ~UnderMunicipality(Named)
                         THEN Rec(ProvinceCode(Named)).name \o Named.name
                         ELSE Named.name
        /\ (DistrictTier(Named) /\ ~CountySuffix(Named) /\ ~UnderMunicipality(Named)) =>
             /\ (Has(ProvinceCode(Named)) /\ Has(CityCode(Named))) =>
                  ret.value = Rec(ProvinceCode(Named)).name
                              \o Rec(CityCode(Named)).name \o Named.name
             /\ (Has(ProvinceCode(Named)) /\ ~Has(CityCode(Named))) =>
                  ret.value = Rec(ProvinceCode(Named)).name \o Named.name
             /\ (~Has(ProvinceCode(Named)) /\ ~Has(CityCode(Named))) =>
                  ret.value = Named.name

\* An ordinary district named after its province and its city.
C7_Witness ==
    /\ NameBuilt
    /\ DistrictTier(Named)
    /\ ~CountySuffix(Named)
    /\ ~UnderMunicipality(Named)
    /\ Has(ProvinceCode(Named))
    /\ Has(CityCode(Named))
    /\ ret.value = Rec(ProvinceCode(Named)).name
                   \o Rec(CityCode(Named)).name \o Named.name

(***************************************************************************)
(* The expansion of a record by tier, as the properties state it.          *)
(***************************************************************************)
\* The district-tier records of table t whose code starts with prefix.
DistrictsUnder(prefix, t) ==
    SelectSeq(t, LAMBDA c : DistrictTier(c) /\ StartsWith(c.adcode, prefix))

Expansion(r, t) ==
    IF ProvinceTier(r) THEN DistrictsUnder(Substring0(r.adcode, 2), t)
    ELSE IF CityTier(r)
    THEN IF DistrictsUnder(Substring0(r.adcode, 4), t) = <<>> THEN << r >>
         ELSE DistrictsUnder(Substring0(r.adcode, 4), t)
    ELSE << r >>

RECURSIVE Flatten(_)
Flatten(ss) == IF ss = <<>> THEN <<>> ELSE Head(ss) \o Flatten(Tail(ss))

\* Every table record expanded by tier in table order, each entry composed.
FullComposed ==
    LET t == Table
        full == Flatten([i \in 1..Len(t) |-> Expansion(t[i], t)])
    IN  [i \in 1..Len(full) |->
            [name |-> buildFullName(full[i], t), adcode |-> full[i].adcode,
             citycode |-> full[i].citycode]]

IsPrefix(a, b) == Len(a) <= Len(b) /\ a = SubSeq(b, 1, Len(a))

\* The empty string, undefined or null.
EmptyQuery(q) == q \in {Str(<<>>), UndefinedArg, NullArg}

\* listCity has returned a list for an empty query.
ListedAll == ret.op = "listCity" /\ ~ret.threw /\ EmptyQuery(ret.arg)

\* The ListResources handler has answered.
ResourcesListed == ret.op = "ListResources" /\ ~ret.threw

\* The names of the resources are those of a prefix of the composed table.
ResourcesArePrefix ==
    LET full == FullComposed
        names == [i \in 1..Len(full) |-> full[i].name]
    IN  IsPrefix([i \in 1..Len(ret.value.resources) |-> ret.value.resources[i].name],
                 names)

(***************************************************************************)
(* C4 as stated: with the empty string, undefined or null, listCity        *)
(* matches every record and returns a non-empty prefix of the expanded,    *)
(* composed table, capped at 100.  An empty table, or one of province-tier *)
(* records only, yields the empty list.                                    *)
(***************************************************************************)
C4_NonEmptyPrefix ==
    /\ (pc # "idle" /\ EmptyQuery(city)) => matches = allCities
    /\ ListedAll =>
         /\ ret.value # <<>>
         /\ IsPrefix(ret.value, FullComposed)
         /\ Len(ret.value) <= 100
    /\ ResourcesListed =>
         /\ ret.value.resources # <<>>
         /\ ResourcesArePrefix
         /\ Len(ret.value.resources) <= 100

(***************************************************************************)
(* C4: with the empty string, undefined or null, listCity matches every    *)
(* record and returns a prefix of the expanded, composed table, capped at  *)
(* 100; the prefix is non-empty exactly when the table holds a record that *)
(* is not province-tier.                                                   *)
(***************************************************************************)
C4_PrefixOfFullTable ==
    /\ (pc # "idle" /\ EmptyQuery(city)) => matches = allCities
    /\ ListedAll =>
         /\ ret.value # <<>>
              <=> (LET t == Table IN \E i \in 1..Len(t) : ~ProvinceTier(t[i]))
         /\ IsPrefix(ret.value, FullComposed)
         /\ Len(ret.value) <= 100
    /\ ResourcesListed =>
         /\ ret.value.resources # <<>>
              <=> (LET t == Table IN \E i \in 1..Len(t) : ~ProvinceTier(t[i]))
         /\ ResourcesArePrefix
         /\ Len(ret.value.resources) <= 100

\* listCity(undefined) returned a non-empty, proper prefix of the composed table.
C4_Witness ==
    /\ ret.op = "listCity"
    /\ ret.arg = UndefinedArg
    /\ ret.value # <<>>
    /\ IsPrefix(ret.value, FullComposed)
    /\ Len(ret.value) < Len(FullComposed)

(***************************************************************************)
(* What getCity must return, and the code a read-resource request names.   *)
(***************************************************************************)
GetCityIsFirstMatch ==
    (ret.op = "getCity" /\ ~ret.threw) =>
        ret.value = IF Has(ret.arg.value) THEN Rec(ret.arg.value) ELSE Undefined

\* A read-resource request was made, the table loaded, for a code no record has.
ReadNotFound ==
    /\ ret.op = "ReadResource"
    /\ ret.error # "TypeError"
    /\ UriAdcode(ret.arg.value).type = "string"
    /\ ~Has(UriAdcode(ret.arg.value).value)

C6_TierExpansion ==
    pc # "idle" =>
        /\ matches = SelectSeq(allCities, LAMBDA c : Includes(c.name, OrEmpty(city)))
        /\ idx <= Len(matches)
        /\ Len(contributed) = idx
        /\ \A k \in 1..idx : contributed[k] = Expansion(matches[k], allCities)
        /\ expandedMatches = Flatten(contributed)

\* A province of no districts pushed nothing and a city of none pushed itself.
C6_Witness ==
    /\ pc = "return"
    /\ \E k \in 1..idx : ProvinceTier(matches[k]) /\ contributed[k] = <<>>
    /\ \E k \in 1..idx : CityTier(matches[k]) /\ contributed[k] = << matches[k] >>
    /\ \E k \in 1..idx : CityTier(matches[k]) /\ Len(contributed[k]) > 1

(***************************************************************************)
(* C8: no call changes the table, and a call made again with the same      *)
(* argument ends as the kept call did, whatever calls ran in between.      *)
(***************************************************************************)
C8_ReadOnly ==
    [][ /\ content' = content
        /\ (ret'.op = kept'.call.op /\ ret'.arg = kept'.call.arg)
               => ret' = kept'.call ]_vars

\* listCity was called again, after another call, and returned the kept list.
C8_Witness ==
    /\ kept.call.op = "listCity"
    /\ kept.since = 2
    /\ ret.op = "listCity"
    /\ ret.arg = kept.call.arg
    /\ ret = kept.call
    /\ ~ret.threw
    /\ ret.value # <<>>

(***************************************************************************)
(* C9: a match is expanded only while fewer than 10 entries have been      *)
(* accumulated; it is the next match in order, and what it pushes is       *)
(* appended, so the total may pass 10 with the last processed match.       *)
(***************************************************************************)
C9_StopAtTen ==
    [][ idx' = idx + 1 =>
          /\ Len(expandedMatches) < 10
          /\ matches' = matches
          /\ expandedMatches' =
                 expandedMatches \o Expansion(matches[idx + 1], allCities) ]_vars

\* The second match took the total past 10 and a third was left unprocessed.
C9_Witness ==
    /\ pc = "return"
    /\ idx >= 2
    /\ idx < Len(matches)
    /\ Len(expandedMatches) > 10
    /\ Len(Flatten(SubSeq(contributed, 1, idx - 1))) < 10

(***************************************************************************)
(* C10: the loader never rejects a row: every line left after the header   *)
(* and the blank lines becomes a record of three trimmed fields, and       *)
(* loading completes without an error.  A line of fewer than three fields  *)
(* ends the load with a TypeError.                                         *)
(***************************************************************************)
RemainingLines ==
    SelectSeq(Tail(Split(content, <<"\n">>)),
              LAMBDA line : \E i \in 1..Len(line) : line[i] \notin WhiteSpace)

C10_NeverRejects ==
    /\ ret.op # "none" => ret.error # "TypeError"
    /\ pc # "idle" =>
         /\ Len(allCities) = Len(RemainingLines)
         /\ \A i \in 1..Len(allCities) :
              /\ allCities[i].name = Trim(allCities[i].name)
              /\ allCities[i].adcode = Trim(allCities[i].adcode)
              /\ allCities[i].citycode = Trim(allCities[i].citycode)

(***************************************************************************)
(* C11: no province-tier record appears in what listCity returns: every    *)
(* entry is a table record that is district-tier, or city-tier with no     *)
(* district-tier record under its 4-digit prefix, and carries that         *)
(* record's code and serviceCode with a composed name that ends with the   *)
(* record's own name.                                                      *)
(***************************************************************************)
\* Entry e of a result stands for record r of table t.
StandsFor(e, r, t) ==
    /\ ~ProvinceTier(r)
    /\ DistrictTier(r) \/ (CityTier(r) /\ DistrictsUnder(Substring0(r.adcode, 4), t) = <<>>)
    /\ e.adcode = r.adcode
    /\ e.citycode = r.citycode
    /\ EndsWith(e.name, r.name)

C11_LeafEntries ==
    (ret.op = "listCity" /\ ~ret.threw) =>
        LET t == Table
        IN  \A i \in 1..Len(ret.value) :
                /\ ~ProvinceTier(ret.value[i])
                /\ \E j \in 1..Len(t) : StandsFor(ret.value[i], t[j], t)

\* A query that matched a province returned districts and a city of no districts.
C11_Witness ==
    /\ ret.op = "listCity"
    /\ ~ret.threw
    /\ LET t == Table
       IN  \E j \in 1..Len(t) : ProvinceTier(t[j]) /\ Includes(t[j].name, OrEmpty(ret.arg))
    /\ \E i \in 1..Len(ret.value) : CityTier(ret.value[i])
    /\ \E i \in 1..Len(ret.value) :
           DistrictTier(ret.value[i]) /\ Len(ret.value[i].name) > 3

====
